---- MODULE Spec2Model ----
(***************************************************************************)
(* Model of the BTZen session layer: btzen/session.py (class Session) and  *)
(* the read() coroutine of btzen/fdevice.py.  The asyncio event loop is    *)
(* single threaded, so every action below is one uninterrupted run of      *)
(* Python code between two suspension points.                              *)
(*                                                                         *)
(* A synchronous Session method whose assert fails raises AssertionError   *)
(* and changes nothing: the assert is the guard of its action.  The way a  *)
(* call of read() or wait_connected() ends is reported in the variable     *)
(* last by the step that ends it, an AssertionError as "illegal_state".    *)
(*                                                                         *)
(* The device layer, the functions enable, disable, read_data of           *)
(* btzen/fdevice.py and the class Sensor of btzen/sensor.py, is modelled   *)
(* for one device: every operation is one action, the outcome of each call *)
(* it makes to the transport is chosen by the environment, and the calls   *)
(* are recorded in tlog.                                                   *)
(***************************************************************************)
EXTENDS Naturals, Sequences, FiniteSets

\* the number of device addresses, and of concurrent callers of read() and
\* wait_connected()
NumMacs == 2
NumProcs == 2
\* the number of tasks create_future and add_connection_task start in one run
MaxOpTasks == 2
MaxConnTasks == 2
\* the number of calls the application makes in one run
MaxCalls == 5

Macs == 1..NumMacs
\* one DeviceRegistration for each address
Regs == Macs
Procs == 1..NumProcs

\* DeviceRegistration.mac: the address of a registration
RegMac(r) == r

VARIABLES
    is_active,          \* Session._is_active
    device_task,        \* Session._device_task: registration -> index in ops, 0 = no entry
    connection_task,    \* Session._connection_task: mac -> index in conns, 0 = no entry
    connection_status,  \* Session._connection_status: mac -> "absent" | "clear" | "set"
    event,              \* Session._event is set
    ops,                \* the tasks started by create_future, in creation order
    conns,              \* the tasks started by add_connection_task, in creation order
    pc,                 \* the callers of read() and wait_connected()
    last,               \* what the last step reported: how a call of read() or
                        \* wait_connected() ended, or how the task of a done callback had ended
    aw,                 \* the caller awaiting the Session object
    started,            \* history: start() has been called
    calls,              \* history: the number of calls the application has made
    dev,                \* the device the device layer is run for
    sensor,             \* Sensor._params is set, Sensor._conn_event is set
    conf,               \* the payload the configuration characteristic holds
    tlog,               \* the calls the last device operation made, in order
    hist                \* history: the device operations and how each ended

\* the variables of the session layer, and of the device layer
svars == <<is_active, device_task, connection_task, connection_status, event,
           ops, conns, pc, last, aw, started, calls>>
dvars == <<dev, sensor, conf, tlog, hist>>

vars == <<svars, dvars>>

tables == <<is_active, device_task, connection_task, connection_status, event,
            ops, conns>>

Unfinished(st) == st \in {"pending", "cancelling"}
Finished(st) == ~Unfinished(st)

\* a connection task that has ended and whose done callback has not run yet
Ended(st) == st \in {"ok", "failed", "cancelled"}

\* a caller that is not inside a call
Idle == [at |-> "idle", kind |-> "none", arg |-> 0, task |-> 0]

\* callers are interchangeable: a new call takes the first idle one
FirstIdle(p) == pc[p].at = "idle" /\ \A q \in Procs : q < p => pc[q].at # "idle"

\* a device of the functional interface with no configuration characteristic
PlainDevice == [api |-> "fdevice", notifying |-> FALSE, conf |-> FALSE, period |-> FALSE]

\* no device operation has run
DeviceInit ==
    /\ sensor = [params |-> FALSE, conn_event |-> FALSE]
    /\ conf = "unset"
    /\ tlog = <<>>
    /\ hist = <<>>

SessionInit ==
    /\ is_active = FALSE
    /\ device_task = [r \in Regs |-> 0]
    /\ connection_task = [m \in Macs |-> 0]
    /\ connection_status = [m \in Macs |-> "absent"]
    /\ event = FALSE
    /\ ops = <<>>
    /\ conns = <<>>
    /\ pc = [p \in Procs |-> Idle]
    /\ last = "none"
    /\ aw = "none"
    /\ started = FALSE
    /\ calls = 0

Init == SessionInit /\ dev = PlainDevice /\ DeviceInit

\* addresses are interchangeable: a call that names an address no earlier
\* call has named takes the first such address
Named(m) == connection_status[m] # "absent" \/ \E i \in DOMAIN ops : RegMac(ops[i].reg) = m
FirstNew(m) == Named(m) \/ \A k \in Macs : k < m => Named(k)

\* one more call of the application
Call == calls < MaxCalls /\ calls' = calls + 1 /\ UNCHANGED dvars

\* asyncio.Task.cancel(): a request, which only an unfinished task takes
Cancel(st) == IF st = "pending" THEN "cancelling" ELSE st

\* the tasks Session.stop() iterates over: self._device_task.values()
StopOpTargets(dt) == {dt[r] : r \in Regs} \ {0}

\* the tasks Session.stop() iterates over: self._connection_task.values()
StopConnTargets(ct) == {ct[m] : m \in Macs} \ {0}

\* Session.stop(): the effect on the operation tasks
StopOps(o, dt) ==
    [i \in DOMAIN o |-> [o[i] EXCEPT !.st = IF i \in StopOpTargets(dt) THEN Cancel(@) ELSE @]]

\* Session.stop(): the effect on the connection tasks
StopConns(c, ct) ==
    [j \in DOMAIN c |-> [c[j] EXCEPT !.st = IF j \in StopConnTargets(ct) THEN Cancel(@) ELSE @]]

\* Session.stop() called by stop() and by __await__(), but for the
\* connection tasks
StopCore ==
    /\ is_active' = FALSE
    /\ ops' = StopOps(ops, device_task)
    /\ UNCHANGED <<device_task, connection_task, connection_status, pc>>
    /\ last' = "none"

\* Session.start()
Start ==
    /\ Call
    /\ is_active' = TRUE
    /\ started' = TRUE
    /\ UNCHANGED <<device_task, connection_task, connection_status, event,
                   ops, conns, pc, aw>>
    /\ last' = "none"

\* Session.stop() called by the application
Stop ==
    /\ Call
    /\ StopCore
    /\ conns' = StopConns(conns, connection_task)
    /\ UNCHANGED <<event, aw, started>>

\* Session.create_future(): the task it starts
NewOp(r) == [reg |-> r, st |-> "pending"]

\* Session.create_future(): the task is started and takes the map entry
Submit(r) ==
    /\ Len(ops) < MaxOpTasks
    /\ ops' = Append(ops, NewOp(r))
    /\ device_task' = [device_task EXCEPT ![r] = Len(ops) + 1]

\* Session.create_future() called directly
CreateFuture(r) ==
    /\ Call
    /\ FirstNew(RegMac(r))
    /\ is_active
    /\ Submit(r)
    /\ UNCHANGED <<is_active, connection_task, connection_status, event,
                   conns, pc, aw, started>>
    /\ last' = "none"

\* the callers suspended on the Event object of mac; add_connection_task
\* replaces that object, and nothing sets the replaced one again
LoseWaiters(q, m) ==
    [p \in Procs |->
        IF q[p].at = "wait_connected" /\ q[p].arg = m
        THEN [q[p] EXCEPT !.at = "wait_lost", !.arg = 0]
        ELSE q[p]]

\* Session.add_connection_task()
AddConnectionTask(m) ==
    /\ Call
    /\ FirstNew(m)
    /\ ~is_active
    /\ Len(conns) < MaxConnTasks
    /\ connection_status' = [connection_status EXCEPT ![m] = "clear"]
    /\ conns' = Append(conns, [mac |-> m, st |-> "pending"])
    /\ connection_task' = [connection_task EXCEPT ![m] = Len(conns) + 1]
    /\ pc' = LoseWaiters(pc, m)
    /\ UNCHANGED <<is_active, device_task, event, ops, aw, started>>
    /\ last' = "none"

\* asyncio.Event.set(): every caller suspended in wait() is scheduled to resume
WakeWaiters(q, m) ==
    [p \in Procs |->
        IF q[p].at = "wait_connected" /\ q[p].arg = m
        THEN [q[p] EXCEPT !.at = "woken"]
        ELSE q[p]]

\* Session.set_connected()
SetConnected(m) ==
    /\ Call
    /\ is_active
    /\ connection_status[m] # "absent"
    /\ connection_status' = [connection_status EXCEPT ![m] = "set"]
    /\ pc' = WakeWaiters(pc, m)
    /\ UNCHANGED <<is_active, device_task, connection_task, event, ops,
                   conns, aw, started>>
    /\ last' = "none"

\* Session.set_disconnected()
SetDisconnected(m) ==
    /\ Call
    /\ connection_status[m] # "absent"
    /\ connection_status' = [connection_status EXCEPT ![m] = "clear"]
    /\ UNCHANGED <<is_active, device_task, connection_task, event, ops,
                   conns, pc, aw, started>>
    /\ last' = "none"

\* wait_connected() without the test `event is None`
WaitOutcome_NoLookup(active, status) ==
    IF ~active THEN "illegal_state"
    ELSE IF status = "set" THEN "return"
    ELSE "suspend"

\* Session.wait_connected() up to its first suspension point
WaitOutcome(active, status) ==
    IF ~active THEN "illegal_state"
    ELSE IF status = "absent" THEN "unmanaged"
    ELSE IF status = "set" THEN "return"
    ELSE "suspend"

\* a caller suspended in event.wait() of wait_connected
Waiting(k, m) == [at |-> "wait_connected", kind |-> k, arg |-> m, task |-> 0]

\* a caller of read() suspended in `await task`
Awaiting(i) == [at |-> "await_task", kind |-> "read", arg |-> 0, task |-> i]

\* Session.wait_connected() called directly by caller p
WaitConnected(p, m) ==
    /\ Call
    /\ FirstIdle(p)
    /\ FirstNew(m)
    /\ LET out == WaitOutcome(is_active, connection_status[m])
       IN IF out = "suspend"
          THEN pc' = [pc EXCEPT ![p] = Waiting("wait", m)] /\ last' = "none"
          ELSE last' = (IF out = "return" THEN "returned" ELSE out) /\ UNCHANGED pc
    /\ UNCHANGED <<is_active, device_task, connection_task, connection_status,
                   event, ops, conns, aw, started>>

\* read() without the test `if not session.is_active(): return` after
\* wait_connected
ReadSubmit_NoCheck(p, r) ==
    /\ Submit(r)
    /\ pc' = [pc EXCEPT ![p] = Awaiting(Len(ops) + 1)]
    /\ last' = "none"

\* fdevice.read(): from the line after wait_connected to the await of the task
ReadSubmit(p, r) ==
    IF ~is_active
    THEN /\ pc' = [pc EXCEPT ![p] = Idle]
         /\ last' = "returned_none"
         /\ UNCHANGED <<ops, device_task>>
    ELSE /\ Submit(r)
         /\ pc' = [pc EXCEPT ![p] = Awaiting(Len(ops) + 1)]
         /\ last' = "none"

\* fdevice.read() called by caller p, up to its first suspension point
Read(p, r) ==
    /\ Call
    /\ FirstIdle(p)
    /\ FirstNew(RegMac(r))
    /\ LET out == IF ~is_active THEN "call_error"
                  ELSE WaitOutcome(is_active, connection_status[RegMac(r)])
       IN IF out = "return"
          THEN ReadSubmit(p, r)
          ELSE /\ IF out = "suspend"
                  THEN pc' = [pc EXCEPT ![p] = Waiting("read", r)] /\ last' = "none"
                  ELSE last' = out /\ UNCHANGED pc
               /\ UNCHANGED <<ops, device_task>>
    /\ UNCHANGED <<is_active, connection_task, connection_status, event, conns,
                   aw, started>>

\* caller p resumes after event.wait() of wait_connected
Resume(p) ==
    /\ UNCHANGED <<calls, dvars>>
    /\ pc[p].at = "woken"
    /\ IF pc[p].kind = "read"
       THEN ReadSubmit(p, pc[p].arg)
       ELSE /\ pc' = [pc EXCEPT ![p] = Idle]
            /\ last' = "returned"
            /\ UNCHANGED <<ops, device_task>>
    /\ UNCHANGED <<is_active, connection_task, connection_status, event, conns,
                   aw, started>>

\* what `await task` gives the caller of read()
AwaitResult(st) ==
    IF st = "ok" THEN "value" ELSE IF st = "cancelled" THEN "cancelled" ELSE "error"

\* caller p resumes after `await task` in read()
TaskDone(p) ==
    /\ UNCHANGED <<calls, dvars>>
    /\ pc[p].at = "await_task"
    /\ Finished(ops[pc[p].task].st)
    /\ pc' = [pc EXCEPT ![p] = Idle]
    /\ last' = AwaitResult(ops[pc[p].task].st)
    /\ UNCHANGED <<is_active, device_task, connection_task, connection_status,
                   event, ops, conns, aw, started>>

\* the outcomes of a read_data() coroutine: it catches nothing, so a requested
\* cancellation ends it as cancelled; otherwise the transport read and the
\* conversion succeed or raise
OpOutcomes(st) == IF st = "cancelling" THEN {"cancelled"} ELSE {"ok", "error"}

\* an operation task whose failure asks every other pending operation to
\* cancel
OpEnds_CancelRest(o, i, out) ==
    [k \in DOMAIN o |->
        IF k = i THEN [o[k] EXCEPT !.st = out]
        ELSE IF out = "error" THEN [o[k] EXCEPT !.st = Cancel(@)] ELSE o[k]]

\* the end of the task of operation i: create_future adds no done callback,
\* so nothing but the task itself changes
OpEnds(o, i, out) == [o EXCEPT ![i].st = out]

\* the task of operation i runs to its end
OpStep(i) ==
    /\ UNCHANGED <<calls, dvars>>
    /\ i \in DOMAIN ops
    /\ Unfinished(ops[i].st)
    /\ \E out \in OpOutcomes(ops[i].st) : ops' = OpEnds(ops, i, out)
    /\ UNCHANGED <<is_active, device_task, connection_task, connection_status,
                   event, conns, pc, aw, started>>
    /\ last' = "none"

\* the outcomes of a connection coroutine, which is the caller's: it may
\* catch a requested cancellation, or let it pass
ConnOutcomes(st) ==
    IF st = "cancelling" THEN {"ok", "failed", "cancelled"} ELSE {"ok", "failed"}

\* the connection task j runs to its end
ConnStep(j) ==
    /\ UNCHANGED <<calls, dvars>>
    /\ j \in DOMAIN conns
    /\ Unfinished(conns[j].st)
    /\ \E out \in ConnOutcomes(conns[j].st) : conns' = [conns EXCEPT ![j].st = out]
    /\ UNCHANGED <<is_active, device_task, connection_task, connection_status,
                   event, ops, pc, aw, started>>
    /\ last' = "none"

\* _stop() without the test `not task.cancelled()`
StopTrigger_AnyEnd(st) == st \in {"failed", "cancelled"}

\* Session._stop(): task.done() and not task.cancelled() and task.exception()
StopTrigger(st) == st = "failed"

\* what the done callback saw: how its task had ended
CallbackSaw(st) ==
    IF st = "ok" THEN "conn_ok" ELSE IF st = "failed" THEN "conn_failed" ELSE "conn_cancelled"

\* Session._stop(), the done callback of connection task j; the task is
\* "done" once its callback has run, and last tells how it had ended
ConnCallback(j) ==
    /\ UNCHANGED <<calls, dvars>>
    /\ j \in DOMAIN conns
    /\ Ended(conns[j].st)
    /\ last' = CallbackSaw(conns[j].st)
    /\ IF StopTrigger(conns[j].st)
       THEN /\ is_active' = FALSE
            /\ ops' = StopOps(ops, device_task)
            /\ conns' = [StopConns(conns, connection_task) EXCEPT ![j].st = "done"]
            /\ event' = TRUE
            /\ aw' = IF aw = "waiting" THEN "woken" ELSE aw
            /\ UNCHANGED <<device_task, connection_task, connection_status, pc>>
       ELSE /\ conns' = [conns EXCEPT ![j].st = "done"]
            /\ UNCHANGED <<is_active, device_task, connection_task,
                           connection_status, event, ops, pc, aw>>
    /\ UNCHANGED started

\* Session.__await__(): the finally clause
AwaitExit ==
    /\ StopCore
    /\ conns' = StopConns(conns, connection_task)
    /\ aw' = "done"
    /\ UNCHANGED <<event, started>>

\* Session.__await__(): a caller awaits the session
AwaitSession ==
    /\ Call
    /\ aw = "none"
    /\ IF event
       THEN AwaitExit
       ELSE /\ aw' = "waiting"
            /\ UNCHANGED <<is_active, device_task, connection_task, connection_status,
                           event, ops, conns, pc, started>>
            /\ last' = "none"

\* Session.__await__(): the awaiting caller resumes after self._event.wait()
AwaitResume ==
    /\ UNCHANGED <<calls, dvars>>
    /\ aw = "woken"
    /\ AwaitExit

\* Session.__await__(): the awaiting caller is cancelled while suspended
AwaitCancel ==
    /\ Call
    /\ aw = "waiting"
    /\ AwaitExit

\* the tasks Session.cancel_device_tasks(mac) iterates over: the entries of
\* self._device_task whose registration has address mac
CancelTargets(dt, m) == {dt[r] : r \in {x \in Regs : RegMac(x) = m}} \ {0}

\* Session.cancel_device_tasks(): the effect on the operation tasks
CancelOps(o, dt, m) ==
    [i \in DOMAIN o |-> [o[i] EXCEPT !.st = IF i \in CancelTargets(dt, m) THEN Cancel(@) ELSE @]]

\* Session.cancel_device_tasks(mac, msg)
CancelDeviceTasks(m) ==
    /\ Call
    /\ FirstNew(m)
    /\ ops' = CancelOps(ops, device_task, m)
    /\ UNCHANGED <<is_active, device_task, connection_task, connection_status,
                   event, conns, pc, aw, started>>
    /\ last' = "none"

Next ==
    \/ Start
    \/ Stop
    \/ \E r \in Regs : CreateFuture(r)
    \/ \E m \in Macs : AddConnectionTask(m)
    \/ \E m \in Macs : SetConnected(m)
    \/ \E m \in Macs : SetDisconnected(m)
    \/ \E m \in Macs : CancelDeviceTasks(m)
    \/ \E p \in Procs, m \in Macs : WaitConnected(p, m)
    \/ \E p \in Procs, r \in Regs : Read(p, r)
    \/ \E p \in Procs : Resume(p)
    \/ \E p \in Procs : TaskDone(p)
    \/ \E i \in DOMAIN ops : OpStep(i)
    \/ \E j \in DOMAIN conns : ConnStep(j)
    \/ \E j \in DOMAIN conns : ConnCallback(j)
    \/ AwaitSession
    \/ AwaitResume
    \/ AwaitCancel

Spec == Init /\ [][Next]_vars

\* the event loop runs every scheduled callback and resumes every ready
\* coroutine, and a transport call ends within its timeout; the application's
\* calls and the end of an undisturbed connection task are not forced
FairSpec ==
    /\ Spec
    /\ \A p \in Procs : WF_vars(Resume(p)) /\ WF_vars(TaskDone(p))
    /\ \A i \in 1..MaxOpTasks : WF_vars(OpStep(i))
    /\ \A j \in 1..MaxConnTasks :
          WF_vars(ConnCallback(j)) /\ WF_vars(ConnStep(j) /\ conns[j].st = "cancelling")
    /\ WF_vars(AwaitResume)

\* ---------------------------------------------------------------------
\* The device layer
\* ---------------------------------------------------------------------

\* the number of device operations in one run
MaxDevOps == 3

\* set_interval(): the factor from seconds to the device's unit, and the
\* first value a byte cannot hold
IntervalScale == 100
ByteLimit == 256

\* the intervals the application asks for, in milliseconds
IntervalsMs == {5, 2559, 2560}

\* int(interval * 100) of an interval given in milliseconds
Native(ms) == (ms * IntervalScale) \div 1000

\* the devices: the interface that drives it, a notifying device or a polled
\* one, with or without a configuration payload, with or without a
\* characteristic for the sampling period
Devices ==
    [api : {"fdevice", "sensor"}, notifying : BOOLEAN, conf : BOOLEAN, period : BOOLEAN]

\* how an awaited transport write, an awaited transport read, a synchronous
\* transport call, a conversion and a path lookup can end
WriteOutcomes == {"ok", "error", "cancelled"}
ReadOutcomes == {"ok", "error", "timeout", "cancelled"}
SyncOutcomes == {"ok", "error"}
PathOutcomes == {"path", "none"}

\* one call to the transport or to the converter, and how it ended
Tx(call, path, data, out) == [call |-> call, path |-> path, data |-> data, out |-> out]

\* one run of a device operation: the calls it made and how it ended
Run(log, res) == [log |-> log, res |-> res]

\* the exception a failed awaited transport call raises in its caller
Raised(out) ==
    IF out = "cancelled" THEN "cancelled"
    ELSE IF out = "timeout" THEN "timeout_error"
    ELSE "transport_error"

\* a coroutine that awaits a call inside try/except and proceeds whatever
\* the call raised
Proceeds_Always(out) == TRUE

\* a coroutine goes on after an awaited call only if the call did not raise
Proceeds(out) == out = "ok"

\* write_config() that repeats a failed write once
WriteConfig_Retry(data, w) ==
    IF w = "ok" THEN <<Tx("write", "conf", data, w)>>
    ELSE <<Tx("write", "conf", data, w), Tx("write", "conf", data, w)>>

\* fdevice.write_config(): one bt_write on the configuration characteristic
WriteConfig(data, w) == <<Tx("write", "conf", data, w)>>

\* a device whose config_on is the off payload
OnPayload_Off(d) == "off"

\* the payload enable writes: Sensor._enable takes config_on_notify for a
\* notifying sensor, fdevice takes device.config_on
OnPayload(d) == IF d.api = "sensor" /\ d.notifying THEN "on_notify" ELSE "on"

\* fdevice.enable() of the polled device, a no-op without configuration
\* characteristic
EnableEnvSensing(d, w) ==
    IF d.conf
    THEN Run(WriteConfig(OnPayload(d), w), IF Proceeds(w) THEN "ok" ELSE Raised(w))
    ELSE Run(<<>>, "ok")

\* fdevice.enable() of a notifying device
EnableDevNotifying(d, w, s) ==
    LET inner == EnableEnvSensing(d, w)
    IN IF inner.res # "ok" THEN inner
       ELSE Run(inner.log \o <<Tx("subscribe", "data", "-", s)>>,
                IF s = "ok" THEN "ok" ELSE "transport_error")

\* fdevice.disarm() and disarm_async(): whatever f raised, cancellation
\* included, is logged and the caller goes on
Disarmed(out) == "ok"

\* fdevice.disable() of the polled device
DisableEnvSensing(d, w) ==
    IF d.conf THEN Run(WriteConfig("off", w), Disarmed(w)) ELSE Run(<<>>, "ok")

\* fdevice.disable() of a notifying device
DisableDevNotifying(d, p, s, w) ==
    IF p = "none" THEN Run(<<>>, "AssertionError")
    ELSE LET inner == DisableEnvSensing(d, w)
         IN Run(<<Tx("unsubscribe", "data", "-", s)>> \o inner.log, inner.res)

\* the end of a read: device.convert(data) on the bytes read
Converted(r, c) ==
    IF r # "ok" THEN Run(<<>>, Raised(r))
    ELSE Run(<<Tx("convert", "-", "-", c)>>, IF c = "ok" THEN "value" ELSE "decode_error")

\* fdevice.read_data() of the polled device
ReadEnvSensing(p, r, c) ==
    IF p = "none" THEN Run(<<>>, "AssertionError")
    ELSE LET end == Converted(r, c)
         IN Run(<<Tx("read", "data", "-", r)>> \o end.log, end.res)

\* fdevice.read_data() of a notifying device
ReadDevNotifying(r, c) ==
    LET end == Converted(r, c)
    IN Run(<<Tx("get", "data", "-", r)>> \o end.log, end.res)

\* Sensor._enable()
SensorEnableRun(d, w, s) ==
    LET wr == IF d.conf
              THEN Run(<<Tx("write", "conf", OnPayload(d), w)>>,
                       IF Proceeds(w) THEN "ok" ELSE Raised(w))
              ELSE Run(<<>>, "ok")
    IN IF wr.res # "ok" \/ ~d.notifying THEN wr
       ELSE Run(wr.log \o <<Tx("subscribe", "data", "-", s)>>,
                IF s = "ok" THEN "ok" ELSE "transport_error")

\* Sensor._stop(): `except Exception` lets a CancelledError pass
Caught(out) == IF out = "cancelled" THEN "cancelled" ELSE "ok"

\* Sensor._stop()
SensorStopRun(d, params, s, w) ==
    IF ~params THEN Run(<<>>, "ok")
    ELSE LET un == IF d.notifying THEN <<Tx("unsubscribe", "data", "-", s)>> ELSE <<>>
         IN IF d.conf
            THEN Run(un \o <<Tx("write", "conf", "off", w)>>, Caught(w))
            ELSE Run(un, "ok")

\* Sensor.read() after the wait for the connection: every exception of the
\* transport read and of the converter is raised again as CancelledError
SensorReadRun(d, r, c) ==
    LET end == Converted(r, c)
    IN Run(<<Tx(IF d.notifying THEN "get" ELSE "read", "data", "-", r)>> \o end.log,
           IF end.res = "value" THEN "value" ELSE "cancelled")

\* Sensor.set_interval() after the wait for the connection: the handler of
\* DataWriteError formats its message with the undefined name r
SetIntervalRun(d, ms, w) ==
    IF ~d.period THEN Run(<<>>, "ok")
    ELSE IF ~(Native(ms) < ByteLimit) THEN Run(<<>>, "AssertionError")
    ELSE Run(<<Tx("write", "period", Native(ms), w)>>,
             IF w = "ok" THEN "ok" ELSE IF w = "cancelled" THEN "cancelled" ELSE "NameError")

\* the payload the configuration characteristic holds after the calls of
\* log: that of the last write that succeeded
RECURSIVE ConfAfter(_, _)
ConfAfter(c, log) ==
    IF log = <<>> THEN c
    ELSE LET t == Head(log)
         IN ConfAfter(IF t.call = "write" /\ t.path = "conf" /\ t.out = "ok" THEN t.data ELSE c,
                      Tail(log))

\* one device operation has run
DevStep(op, arg, run) ==
    /\ Len(hist) < MaxDevOps
    /\ tlog' = run.log
    /\ hist' = Append(hist, [op |-> op, arg |-> arg, res |-> run.res])
    /\ conf' = ConfAfter(conf, run.log)
    /\ UNCHANGED <<svars, dev>>

\* fdevice.enable(device, mac)
Enable ==
    /\ dev.api = "fdevice"
    /\ \E w \in WriteOutcomes, s \in SyncOutcomes :
          DevStep("enable", 0, IF dev.notifying THEN EnableDevNotifying(dev, w, s)
                               ELSE EnableEnvSensing(dev, w))
    /\ UNCHANGED sensor

\* fdevice.disable(device, mac)
Disable ==
    /\ dev.api = "fdevice"
    /\ \E p \in PathOutcomes, s \in SyncOutcomes, w \in WriteOutcomes :
          DevStep("disable", 0, IF dev.notifying THEN DisableDevNotifying(dev, p, s, w)
                                ELSE DisableEnvSensing(dev, w))
    /\ UNCHANGED sensor

\* fdevice.read_data(device, mac)
ReadData ==
    /\ dev.api = "fdevice"
    /\ \E p \in PathOutcomes, r \in ReadOutcomes, c \in SyncOutcomes :
          DevStep("read", 0, IF dev.notifying THEN ReadDevNotifying(r, c)
                             ELSE ReadEnvSensing(p, r, c))
    /\ UNCHANGED sensor

\* Sensor._enable(): the connection event is set at its end
SensorEnable ==
    /\ dev.api = "sensor"
    /\ \E w \in WriteOutcomes, s \in SyncOutcomes :
          LET run == SensorEnableRun(dev, w, s)
          IN /\ DevStep("enable", 0, run)
             /\ sensor' = [params |-> TRUE, conn_event |-> sensor.conn_event \/ run.res = "ok"]

\* Sensor._disable(): _hold() clears the connection event, then _stop()
SensorDisable ==
    /\ dev.api = "sensor"
    /\ \E s \in SyncOutcomes, w \in WriteOutcomes :
          DevStep("disable", 0, SensorStopRun(dev, sensor.params, s, w))
    /\ sensor' = [sensor EXCEPT !.conn_event = FALSE]

\* Sensor.read(): it goes on only when the connection event is set
SensorRead ==
    /\ dev.api = "sensor"
    /\ sensor.conn_event
    /\ \E r \in ReadOutcomes, c \in SyncOutcomes : DevStep("read", 0, SensorReadRun(dev, r, c))
    /\ UNCHANGED sensor

\* Sensor.set_interval(interval): it goes on only when the connection event
\* is set
SetInterval(ms) ==
    /\ dev.api = "sensor"
    /\ sensor.conn_event
    /\ \E w \in WriteOutcomes : DevStep("set_interval", Native(ms), SetIntervalRun(dev, ms, w))
    /\ UNCHANGED sensor

DevInit == SessionInit /\ dev \in Devices /\ DeviceInit

DevNext ==
    \/ Enable
    \/ Disable
    \/ ReadData
    \/ SensorEnable
    \/ SensorDisable
    \/ SensorRead
    \/ \E ms \in IntervalsMs : SetInterval(ms)

DevSpec == DevInit /\ [][DevNext]_vars


\* ---------------------------------------------------------------------
\* Properties
\* ---------------------------------------------------------------------

PendingOps(o) == {i \in DOMAIN o : o[i].st = "pending"}
PendingConns(c) == {j \in DOMAIN c : c[j].st = "pending"}

\* C1: after stop() the session is inactive and no task started by
\* create_future or add_connection_task is left running without a
\* cancellation request, the tasks whose map entry was overwritten included.
C1_StopCancelsEveryTask ==
    [][Stop => (~is_active' /\ PendingOps(ops') = {} /\ PendingConns(conns') = {})]_vars

\* C2: once stop() has been called the session is never active again.  A
\* started session that is inactive has been stopped, so no step may take
\* such a session back to active.
C2_StoppedStaysInactive ==
    [][(started /\ ~is_active) => ~is_active']_vars

\* C3: when the done callback sees a connection task that ended with an
\* error, the session is inactive afterwards, the awaiting caller of the
\* session is released, and every operation of another device and every
\* other connection task has a cancellation request.
C3_ConnErrorStopsSession ==
    [][\A j \in DOMAIN conns :
          (ConnCallback(j) /\ conns[j].st = "failed") =>
             /\ ~is_active'
             /\ event'
             /\ aw' # "waiting"
             /\ \A i \in PendingOps(ops') : RegMac(ops'[i].reg) = conns[j].mac
             /\ PendingConns(conns') \subseteq {j}]_vars

\* C4: the done callback of a connection task that ended normally or by
\* cancellation changes nothing of the session but the task's own entry, and
\* every step that takes the session from active to inactive is stop(), the
\* exit of the caller awaiting the session, or the done callback of a
\* connection task that ended with an error.
C4_OnlyErrorStops ==
    [][/\ \A j \in DOMAIN conns :
            (ConnCallback(j) /\ conns[j].st \in {"ok", "cancelled"}) =>
               /\ UNCHANGED <<is_active, ops, event, aw, pc, device_task,
                              connection_task, connection_status>>
               /\ \A k \in DOMAIN conns : k # j => conns'[k] = conns[k]
       /\ (is_active /\ ~is_active') =>
            \/ Stop
            \/ AwaitSession \/ AwaitResume \/ AwaitCancel
            \/ \E j \in DOMAIN conns : ConnCallback(j) /\ conns[j].st = "failed"]_vars

\* a done callback has just run on a task that ended normally or by
\* cancellation, with the session active, an operation running and a caller
\* awaiting the session
C4_Witness ==
    /\ last \in {"conn_ok", "conn_cancelled"}
    /\ is_active
    /\ PendingOps(ops) # {}
    /\ aw = "waiting"

\* C5: an operation that is unfinished while the session is inactive was
\* submitted before a stop(); when it ends, it ends as cancelled, and the
\* caller awaiting a task sees a cancellation exactly when the task was
\* cancelled.
C5_StoppedOperationIsCancelled ==
    [][/\ \A i \in DOMAIN ops : (OpStep(i) /\ ~is_active) => ops'[i].st = "cancelled"
       /\ \A p \in Procs :
            TaskDone(p) => (last' = "cancelled" <=> ops[pc[p].task].st = "cancelled")]_vars

\* C6: no registration has two unfinished operations.
C6_OneOperationPerRegistration ==
    \A r \in Regs : Cardinality({i \in DOMAIN ops : ops[i].reg = r /\ Unfinished(ops[i].st)}) <= 1

\* C7: a read() call that is suspended while the session is inactive (it was
\* called on an active session, which was stopped since) eventually ends.
C7_SuspendedReadEnds ==
    \A p \in Procs :
        (pc[p].kind = "read" /\ pc[p].at # "idle" /\ ~is_active) ~> (pc[p].at = "idle")

\* C8 as stated: wait_connected for an address without connection task fails
\* with the unmanaged-device error in every session state, without
\* suspending and without changing the session tables.
C8_UnmanagedInEveryState ==
    [][\A p \in Procs, m \in Macs :
          (connection_status[m] = "absent" /\ WaitConnected(p, m)) =>
             (last' = "unmanaged" /\ pc' = pc /\ UNCHANGED tables)]_vars

\* C8 as amended: wait_connected for an address without connection task never
\* suspends and never changes the session tables; it fails with the
\* unmanaged-device error when the session is active and with the assertion
\* error of its active check when the session is not.
C8_UnmanagedWhenActive ==
    [][\A p \in Procs, m \in Macs :
          (connection_status[m] = "absent" /\ WaitConnected(p, m)) =>
             /\ last' = (IF is_active THEN "unmanaged" ELSE "illegal_state")
             /\ pc' = pc
             /\ UNCHANGED tables]_vars

\* a call for an unmanaged address has just failed on an active session that
\* manages another address
C8_Witness ==
    /\ last = "unmanaged"
    /\ is_active
    /\ \E m \in Macs : connection_status[m] = "absent"
    /\ \E m \in Macs : connection_status[m] # "absent"

\* C9: start() returns normally only on a session that was never started.
C9_SecondStartFails ==
    [][Start => ~started]_vars

\* C10: add_connection_task returns normally, and registers, only on a
\* session that was never started.
C10_RegisterOnlyBeforeStart ==
    [][\A m \in Macs : AddConnectionTask(m) => ~started]_vars

\* C11: cancel_device_tasks(mac) leaves no operation of a registration with
\* address mac pending, and leaves alone the operations of the other
\* addresses, the connection tasks, the connection states and the active flag.
C11_CancelDeviceOperations ==
    [][\A m \in Macs : CancelDeviceTasks(m) =>
          /\ \A i \in DOMAIN ops : RegMac(ops[i].reg) = m => ops'[i].st # "pending"
          /\ \A i \in DOMAIN ops : RegMac(ops[i].reg) # m => ops'[i] = ops[i]
          /\ UNCHANGED <<conns, connection_task, connection_status, is_active>>]_vars

\* C12: a step of read() submits an operation only when the session is
\* active and wait_connected for the registration's address has returned,
\* at once on a set event or after a wake-up; read() called on an inactive
\* session ends with CallError and changes nothing.
C12_ReadNeedsActiveAndConnected ==
    [][/\ Len(ops') > Len(ops) =>
             \A p \in Procs : ((\E r \in Regs : Read(p, r)) \/ Resume(p)) =>
                /\ is_active
                /\ \/ pc[p].at = "woken" /\ pc[p].kind = "read"
                   \/ \E r \in Regs : Read(p, r) /\ connection_status[RegMac(r)] = "set"
       /\ (~is_active /\ calls' # calls) =>
             \A p \in Procs : (FirstIdle(p) /\ \E r \in Regs : Read(p, r)) =>
                last' = "call_error" /\ UNCHANGED <<tables, pc>>]_vars

\* one read() has submitted its operation and awaits it, a later read() on
\* the stopped session was rejected
C12_Witness ==
    /\ last = "call_error"
    /\ \E p \in Procs : pc[p].at = "await_task"

\* the last device operation was op
LastOp(op) == hist # <<>> /\ hist[Len(hist)].op = op

\* how the last device operation ended
LastRes == hist[Len(hist)].res

\* the calls of the last device operation that went to the transport
TransportCalls == {k \in DOMAIN tlog : tlog[k].call # "convert"}

\* C13: enable of a notifying device with a configuration characteristic
\* first writes the on-payload to the configuration characteristic; it
\* subscribes on the data characteristic only after that write succeeded,
\* and not at all when the write failed.
C13_ConfigBeforeSubscribe ==
    (LastOp("enable") /\ dev.notifying /\ dev.conf) =>
        /\ tlog # <<>>
        /\ tlog[1].call = "write" /\ tlog[1].path = "conf" /\ tlog[1].data = OnPayload(dev)
        /\ \A k \in DOMAIN tlog : tlog[k].call = "subscribe" =>
              /\ tlog[k].path = "data"
              /\ \E j \in 1..(k - 1) : tlog[j] = Tx("write", "conf", OnPayload(dev), "ok")
        /\ (\E j \in DOMAIN tlog : tlog[j].call = "write" /\ tlog[j].out # "ok") =>
              \A k \in DOMAIN tlog : tlog[k].call # "subscribe"

\* a notifying device has been enabled: the write, then the subscription
C13_Witness ==
    /\ LastOp("enable") /\ dev.notifying /\ dev.conf
    /\ Len(tlog) = 2 /\ tlog[1].out = "ok" /\ tlog[2].call = "subscribe"

\* C14: disable ends normally whatever failed; for a notifying device it
\* first unsubscribes, and for a device with a configuration characteristic
\* it goes on to write the off-payload, also after a failed unsubscribe.
C14_DisableNeverRaises ==
    (LastOp("disable") /\ (dev.api = "sensor" => sensor.params)) =>
        /\ LastRes = "ok"
        /\ dev.notifying => tlog # <<>> /\ tlog[1].call = "unsubscribe"
        /\ dev.conf => \E k \in DOMAIN tlog :
              /\ tlog[k].call = "write" /\ tlog[k].path = "conf" /\ tlog[k].data = "off"
              /\ \A j \in DOMAIN tlog : tlog[j].call = "unsubscribe" => j < k

\* C15: for a polled device with a configuration characteristic, enable
\* makes exactly one transport call, a write of the on-payload to the
\* configuration characteristic; disable exactly one, a write of the
\* off-payload to it; a read whose data path is resolved exactly one, a read
\* of the data characteristic, and it returns the converted value exactly
\* when the read and the conversion succeed.
C15_PollDeviceCalls ==
    (hist # <<>> /\ ~dev.notifying /\ dev.conf) =>
        /\ LastOp("enable") =>
              /\ Len(tlog) = 1
              /\ tlog[1].call = "write" /\ tlog[1].path = "conf" /\ tlog[1].data = "on"
        /\ (LastOp("disable") /\ (dev.api = "sensor" => sensor.params)) =>
              /\ Len(tlog) = 1
              /\ tlog[1].call = "write" /\ tlog[1].path = "conf" /\ tlog[1].data = "off"
        /\ (LastOp("read") /\ LastRes # "AssertionError") =>
              /\ Cardinality(TransportCalls) = 1
              /\ tlog[1].call = "read" /\ tlog[1].path = "data"
              /\ LastRes = "value" <=>
                    (tlog[1].out = "ok" /\ Len(tlog) = 2 /\ tlog[2] = Tx("convert", "-", "-", "ok"))

\* the polled device was enabled, read with a value returned, and disabled
C15_Witness ==
    /\ dev.api = "fdevice" /\ ~dev.notifying /\ dev.conf
    /\ Len(hist) = 3
    /\ hist[1] = [op |-> "enable", arg |-> 0, res |-> "ok"]
    /\ hist[2] = [op |-> "read", arg |-> 0, res |-> "value"]
    /\ hist[3] = [op |-> "disable", arg |-> 0, res |-> "ok"]
    /\ tlog = <<Tx("write", "conf", "off", "ok")>>
    /\ conf = "off"

\* the configuration writes of the last device operation
ConfWrites == {k \in DOMAIN tlog : tlog[k].call = "write" /\ tlog[k].path = "conf"}

\* C16: after enable, disable, enable of a device with a configuration
\* characteristic, however the disable ended, the last bytes written to the
\* configuration characteristic are the on-payload, and the characteristic
\* holds it when that write succeeded.
C16_EnableDisableEnable ==
    (/\ dev.conf
     /\ Len(hist) >= 3
     /\ hist[Len(hist) - 2].op = "enable"
     /\ hist[Len(hist) - 1].op = "disable"
     /\ hist[Len(hist)].op = "enable") =>
        /\ ConfWrites # {}
        /\ \A k \in ConfWrites : tlog[k].data \in {"on", "on_notify"}
        /\ (\E k \in ConfWrites : tlog[k].out = "ok") => conf \in {"on", "on_notify"}
        /\ LastRes = "ok" => conf \in {"on", "on_notify"}

\* enable, a disable that raised, enable: the characteristic holds the
\* on-payload
C16_Witness ==
    /\ dev.conf
    /\ Len(hist) = 3
    /\ hist[1].op = "enable"
    /\ hist[2].op = "disable" /\ hist[2].res # "ok"
    /\ hist[3].op = "enable" /\ hist[3].res = "ok"
    /\ conf \in {"on", "on_notify"}

\* C17: set_interval with an interval whose native value does not fit a byte
\* ends with ConfigurationError and makes no transport call.
C17_IntervalOutOfRange ==
    (LastOp("set_interval") /\ dev.period /\ hist[Len(hist)].arg >= ByteLimit) =>
        LastRes = "ConfigurationError" /\ tlog = <<>>

\* C18: set_interval whose write of an in-range value fails ends with
\* ConfigurationError.
C18_IntervalWriteFails ==
    (LastOp("set_interval") /\ \E k \in DOMAIN tlog : tlog[k].call = "write" /\ tlog[k].out = "error") =>
        LastRes = "ConfigurationError"

\* the last device operation had its transport read fail or time out, or
\* its conversion fail
ReadFailed ==
    \E k \in DOMAIN tlog :
        \/ tlog[k].call \in {"read", "get"} /\ tlog[k].out \in {"error", "timeout"}
        \/ tlog[k].call = "convert" /\ tlog[k].out = "error"

\* C19: a read whose transport call failed or timed out, or whose conversion
\* failed, ends with an error of the read, never as cancelled.
C19_ReadFailureIsNotCancellation ==
    (LastOp("read") /\ ReadFailed) =>
        LastRes \in {"transport_error", "timeout_error", "decode_error"}

\* C20: the failure of an operation changes nothing but the operation's own
\* task, and the read() that awaited it reports the error and changes
\* nothing: the active flag, the connection tasks, the connection states and
\* every other operation stay as they were.
C20_OperationFailureIsLocal ==
    [][/\ \A i \in DOMAIN ops : (OpStep(i) /\ ops'[i].st = "error") =>
              /\ UNCHANGED <<is_active, conns, connection_task, connection_status,
                             device_task, event>>
              /\ \A k \in DOMAIN ops : k # i => ops'[k] = ops[k]
       /\ last' = "error" => UNCHANGED tables]_vars

\* a read() has reported the error of its operation; the session is active,
\* an operation of another device and a connection task are still pending
C20_Witness ==
    /\ last = "error"
    /\ is_active
    /\ \E i, k \in DOMAIN ops :
          /\ ops[i].st = "error" /\ ops[k].st = "pending"
          /\ RegMac(ops[i].reg) # RegMac(ops[k].reg)
    /\ PendingConns(conns) # {}

\* C21: a caller suspended on the Session is released only by the done
\* callback of a failed connection task or by its own cancellation; when the
\* await ends the session is inactive and no operation task and no
\* connection task is left pending; stop() called by the application leaves
\* the awaiter as it is.
C21_AwaitEndsStopped ==
    [][/\ (aw = "waiting" /\ aw' # "waiting") =>
             \/ AwaitCancel
             \/ \E j \in DOMAIN conns : ConnCallback(j) /\ conns[j].st = "failed"
       /\ (aw # "done" /\ aw' = "done") =>
             ~is_active' /\ PendingOps(ops') = {} /\ PendingConns(conns') = {}
       /\ (aw' # aw \/ event' # event) => ~Stop]_vars

\* the address a caller of wait_connected, directly or inside read(), waits for
WaiterMac(w) == IF w.kind = "read" THEN RegMac(w.arg) ELSE w.arg

\* C22: the readiness state of an address is clear after add_connection_task
\* and set_disconnected and set after set_connected; and whenever
\* wait_connected returns to its caller, at once or after a wake-up, the
\* state of its address is set at that moment.
C22_ReturnsOnlyWhenReady ==
    [][/\ \A m \in Macs :
             /\ (connection_status'[m] # connection_status[m] /\ AddConnectionTask(m)) =>
                   connection_status'[m] = "clear"
             /\ (calls' # calls /\ SetDisconnected(m)) => connection_status'[m] = "clear"
             /\ (calls' # calls /\ SetConnected(m)) => connection_status'[m] = "set"
       /\ \A p \in Procs :
             /\ (pc[p].at = "woken" /\ Resume(p)) =>
                   connection_status[WaiterMac(pc[p])] = "set"
             /\ \A m \in Macs : (last' = "returned" /\ WaitConnected(p, m)) =>
                   connection_status[m] = "set"]_vars

====
